---- MODULE Spec2Model ----
(***************************************************************************)
(* Model of the geoping pipeline (src/src/main.rs, src/src/iplookup.rs):   *)
(* ping_servers -> fix_countries -> generate_csv, with the geolocation     *)
(* cache of IpInfoClientWrapper.  RTTs are whole milliseconds.             *)
(***************************************************************************)
EXTENDS Integers, Sequences, FiniteSets, TLC

\* ------------------------------------------------------------------ bounds
\* number of catalog entries whose probing results reach fix_countries
NumEndpoints == 3
\* number of catalog entries in the probing specification
PingEndpoints == 2

\* ------------------------------------------------------- program constants
MAX_RTT == 500
PING_COUNT == 10

\* ------------------------------------------------------------ input sets
\* country codes the catalog files may be named after
CatalogCountries == {"DE", "PL", "FR"}
\* country codes the geolocation service may answer with
Countries == {"DE", "PL"}
\* addresses of catalog entries; "bad" parses neither as IPv4 nor as IPv6
IPs == {"ip1", "ip2", "bad"}
\* (claimed country, address) of one catalog entry
EndpointChoices == {<<"DE", "ip1">>, <<"DE", "ip2">>, <<"PL", "ip1">>, <<"FR", "ip2">>, <<"DE", "bad">>}
\* round-trip times a reply may carry
RttValues == {10, 20, 500}
\* a value for "no current group / none"
None == "none"

VARIABLES
    phase,        \* "ping", "scan", "insert", "aggregate", "done", or a panic:
                  \* "panic_remove" (Vec::remove), "panic_index" (entries[..])
    servers,      \* catalog: country code -> sequence of [city, ip]
    rtts,         \* HashMap<CountryCode, Vec<(City, IP, Rtt)>>
    pingTodo,     \* countries of `servers` not yet iterated by ping_servers
    pcc,          \* country whose cities are being pinged (None between countries)
    ppos,         \* 1-based position in servers[pcc] of the current endpoint
    pstate,       \* "next" (top of the inner for), "probing", "probed"
    i,            \* sequence number of the next probe of 'ping_loop
    min_rtt,      \* min_rtt of the current endpoint
    issued,       \* sequence numbers of the probes sent to the current endpoint
    timedOutAt,   \* sequence number of the probe that timed out, or -1
    replies,      \* set of RTTs of the probes that replied (current endpoint)
    cache,        \* IpInfoClientWrapper.cache : IP -> country
    lookups,      \* IP -> number of native_client.lookup calls
    okLookups,    \* IP -> number of native_client.lookup calls that succeeded
    cacheHits,    \* IP -> number of queries answered from the cache
    keyOrder,     \* the order in which rtts hands out its keys when iterated
    scanTodo,     \* keys of rtts not yet iterated by the scan of fix_countries, in order
    scc,          \* group being scanned (None between groups)
    spos,         \* 1-based position in rtts[scc] of the next Measurement
    modifiers,    \* Vec of [cc_estimated, i, cc_real, m]
    resolved,     \* per city: the outcome of its query in the scan
    rtts0,        \* rtts as ping_servers returned it
    intermediate, \* the rows (cc, min, median, average, max), sorted, of generate_csv
    encountered   \* country codes in the order generate_csv met them

vars == <<phase, servers, rtts, pingTodo, pcc, ppos, pstate, i, min_rtt, issued,
          timedOutAt, replies, cache, lookups, okLookups, cacheHits,
          keyOrder, scanTodo, scc, spos, modifiers, resolved, rtts0,
          intermediate, encountered>>

pingVars == <<pingTodo, pcc, ppos, pstate, i, min_rtt, issued, timedOutAt, replies>>
geoVars  == <<cache, lookups, okLookups, cacheHits>>
scanVars == <<keyOrder, scanTodo, scc, spos, modifiers, resolved, rtts0>>
aggVars  == <<intermediate, encountered>>

\* ---------------------------------------------------------------- helpers
Min(S) == CHOOSE x \in S : \A y \in S : x <= y

RECURSIVE SumLen(_, _)
SumLen(f, S) == IF S = {} THEN 0
                ELSE LET k == CHOOSE k \in S : TRUE
                     IN Len(f[k]) + SumLen(f, S \ {k})

\* total number of Measurements over all groups of a map
Total(r) == SumLen(r, DOMAIN r)

\* the Measurements of a sequence, as a set
Elems(s) == {s[k] : k \in 1..Len(s)}

\* the catalog made of the entries e[1..n]: per country, its entries in order
RECURSIVE CatalogOf(_, _)
CatalogOf(e, n) ==
    IF n = 0 THEN [c \in CatalogCountries |-> <<>>]
    ELSE [CatalogOf(e, n - 1) EXCEPT ![e[n][1]] = Append(@, [city |-> n, ip |-> e[n][2]])]

\* Ipv4Addr::from_str / Ipv6Addr::from_str succeed on the address
ParsesAsIp(ip) == ip # "bad"

\* main before ping_servers: a catalog is loaded, nothing is measured
InitPing ==
    /\ phase = "ping"
    /\ \E e \in [1..PingEndpoints -> EndpointChoices] : servers = CatalogOf(e, PingEndpoints)
    /\ rtts = <<>>
    /\ pingTodo = CatalogCountries
    /\ pcc = None
    /\ ppos = 0
    /\ pstate = "next"
    /\ i = 0
    /\ min_rtt = MAX_RTT
    /\ issued = <<>>
    /\ timedOutAt = -1
    /\ replies = {}
    /\ cache = <<>>
    /\ lookups = [a \in IPs |-> 0]
    /\ okLookups = [a \in IPs |-> 0]
    /\ cacheHits = [a \in IPs |-> 0]
    /\ keyOrder = <<>>
    /\ scanTodo = <<>>
    /\ scc = None
    /\ spos = 0
    /\ modifiers = <<>>
    /\ resolved = <<>>
    /\ rtts0 = <<>>
    /\ intermediate = <<>>
    /\ encountered = <<>>

\* ------------------------------------------------------------ ping_servers
\* `for (cc, cities) in servers`: the map hands out its entries in any order
PingCountry ==
    /\ phase = "ping" /\ pcc = None /\ pingTodo # {}
    /\ \E c \in pingTodo :
        /\ pcc' = c
        /\ pingTodo' = pingTodo \ {c}
    /\ ppos' = 0
    /\ pstate' = "next"
    /\ UNCHANGED <<phase, servers, rtts, i, min_rtt, issued, timedOutAt, replies,
                   geoVars, scanVars, aggVars>>

\* top of `for (city, ip) in &cities`: parse the address, skip it when it does
\* not parse, otherwise set up min_rtt and the 'ping_loop
NextEndpoint ==
    /\ phase = "ping" /\ pcc # None /\ pstate = "next"
    /\ ppos < Len(servers[pcc])
    /\ ppos' = ppos + 1
    /\ i' = 0
    /\ min_rtt' = MAX_RTT
    /\ issued' = <<>>
    /\ timedOutAt' = -1
    /\ replies' = {}
    /\ pstate' = IF ParsesAsIp(servers[pcc][ppos + 1].ip) THEN "probing" ELSE "next"
    /\ UNCHANGED <<phase, servers, rtts, pingTodo, pcc, geoVars, scanVars, aggVars>>

\* where the 'ping_loop stands after an iteration that did not break
AfterProbe(next) == IF next < PING_COUNT THEN "probing" ELSE "probed"

\* timeout(..) gave Ok(Ok((_, duration))): the probe replied with RTT r
ProbeReply ==
    /\ phase = "ping" /\ pstate = "probing" /\ i < PING_COUNT
    /\ \E r \in RttValues :
        /\ min_rtt' = IF r < min_rtt THEN r ELSE min_rtt
        /\ replies' = replies \cup {r}
    /\ issued' = Append(issued, i)
    /\ i' = i + 1
    /\ pstate' = AfterProbe(i + 1)
    /\ UNCHANGED <<phase, servers, rtts, pingTodo, pcc, ppos, timedOutAt,
                   geoVars, scanVars, aggVars>>

\* timeout(..) gave Ok(Err(_)): the probe failed for a reason other than a timeout
ProbeError ==
    /\ phase = "ping" /\ pstate = "probing" /\ i < PING_COUNT
    /\ issued' = Append(issued, i)
    /\ i' = i + 1
    /\ pstate' = AfterProbe(i + 1)
    /\ UNCHANGED <<phase, servers, rtts, pingTodo, pcc, ppos, min_rtt, timedOutAt, replies,
                   geoVars, scanVars, aggVars>>

\* a timeout that does not leave the 'ping_loop
ProbeTimeoutNoBreak ==
    /\ phase = "ping" /\ pstate = "probing" /\ i < PING_COUNT
    /\ issued' = Append(issued, i)
    /\ timedOutAt' = IF timedOutAt = -1 THEN i ELSE timedOutAt
    /\ i' = i + 1
    /\ pstate' = AfterProbe(i + 1)
    /\ UNCHANGED <<phase, servers, rtts, pingTodo, pcc, ppos, min_rtt, replies,
                   geoVars, scanVars, aggVars>>

\* timeout(..) gave Err(_): break 'ping_loop
ProbeTimeout ==
    /\ phase = "ping" /\ pstate = "probing" /\ i < PING_COUNT
    /\ issued' = Append(issued, i)
    /\ timedOutAt' = i
    /\ pstate' = "probed"
    /\ UNCHANGED <<phase, servers, rtts, pingTodo, pcc, ppos, i, min_rtt, replies,
                   geoVars, scanVars, aggVars>>

\* rtts.entry(cc).or_insert(vec![]).push(m)
Push(r, c, m) ==
    IF c \in DOMAIN r THEN [r EXCEPT ![c] = Append(@, m)]
    ELSE [k \in DOMAIN r \cup {c} |-> IF k = c THEN <<m>> ELSE r[k]]

\* keeping the endpoint when min_rtt <= MAX_RTT
RecordUpToCeiling ==
    /\ phase = "ping" /\ pstate = "probed"
    /\ rtts' = IF min_rtt <= MAX_RTT
               THEN Push(rtts, pcc, [city |-> servers[pcc][ppos].city,
                                     ip |-> servers[pcc][ppos].ip,
                                     rtt |-> min_rtt])
               ELSE rtts
    /\ pstate' = "next"
    /\ UNCHANGED <<phase, servers, pingTodo, pcc, ppos, i, min_rtt, issued, timedOutAt,
                   replies, geoVars, scanVars, aggVars>>

\* after the 'ping_loop: keep the endpoint when min_rtt < MAX_RTT
Record ==
    /\ phase = "ping" /\ pstate = "probed"
    /\ rtts' = IF min_rtt < MAX_RTT
               THEN Push(rtts, pcc, [city |-> servers[pcc][ppos].city,
                                     ip |-> servers[pcc][ppos].ip,
                                     rtt |-> min_rtt])
               ELSE rtts
    /\ pstate' = "next"
    /\ UNCHANGED <<phase, servers, pingTodo, pcc, ppos, i, min_rtt, issued, timedOutAt,
                   replies, geoVars, scanVars, aggVars>>

\* the inner for is exhausted: count_now += cities.len(), print the total
EndCountry ==
    /\ phase = "ping" /\ pcc # None /\ pstate = "next"
    /\ ppos = Len(servers[pcc])
    /\ pcc' = None
    /\ UNCHANGED <<phase, servers, rtts, pingTodo, ppos, pstate, i, min_rtt, issued,
                   timedOutAt, replies, geoVars, scanVars, aggVars>>

\* the orders in which a HashMap with these keys can hand them out when iterated
Orders(keys) ==
    {o \in [1..Cardinality(keys) -> keys] : \A j, k \in DOMAIN o : o[j] = o[k] => j = k}

\* ping_servers returns rtts, a map with some iteration order; main calls
\* fix_countries
PingReturn ==
    /\ phase = "ping" /\ pcc = None /\ pingTodo = {}
    /\ phase' = "scan"
    /\ ppos' = 0
    /\ i' = 0
    /\ min_rtt' = MAX_RTT
    /\ issued' = <<>>
    /\ timedOutAt' = -1
    /\ replies' = {}
    /\ servers' = <<>>
    /\ \E o \in Orders(DOMAIN rtts) : keyOrder' = o /\ scanTodo' = o
    /\ rtts0' = rtts
    /\ UNCHANGED <<rtts, pingTodo, pcc, pstate, geoVars, scc, spos, modifiers,
                   resolved, aggVars>>

NextPing ==
    \/ PingCountry \/ NextEndpoint \/ ProbeReply \/ ProbeError \/ ProbeTimeout
    \/ Record \/ EndCountry \/ PingReturn

\* the probing of a catalog, up to the return of ping_servers
SpecPing == InitPing /\ [][NextPing]_vars

\* ------------------------------------------------- IpInfoClientWrapper
\* a cache that is never consulted
CacheGetMiss(c, ip) == None

\* self.cache.get(ip): the cached country, or None
CacheGet(c, ip) == IF ip \in DOMAIN c THEN c[ip] ELSE None

\* self.cache.insert(ip, details)
CacheInsert(c, ip, country) ==
    [a \in DOMAIN c \cup {ip} |-> IF a = ip THEN country ELSE c[a]]

\* what query(ip) can do: answer from the cache, or call native_client.lookup,
\* which answers with some country or fails
QueryOutcomes(c, ip) ==
    IF CacheGet(c, ip) # None
    THEN {[kind |-> "hit", country |-> CacheGet(c, ip)]}
    ELSE {[kind |-> "ok", country |-> k] : k \in Countries}
         \cup {[kind |-> "err", country |-> None]}

\* ------------------------------------------------------- fix_countries
\* what ping_servers returns for the catalog entries e[1..n] when entry k's
\* probing ended with min_rtt res[k] (0: the entry is not kept)
RECURSIVE RttsOf(_, _, _)
RttsOf(e, res, n) ==
    IF n = 0 THEN <<>>
    ELSE IF res[n] = 0 THEN RttsOf(e, res, n - 1)
    ELSE Push(RttsOf(e, res, n - 1), e[n][1],
              [city |-> n, ip |-> e[n][2], rtt |-> res[n]])

\* the maps ping_servers can return for a catalog of n entries
PingResults(n) ==
    {RttsOf(e, res, n) :
        <<e, res>> \in {x \in [1..n -> EndpointChoices]
                              \X [1..n -> {0} \cup {r \in RttValues : r < MAX_RTT}] :
                          \A k \in 1..n : ~ParsesAsIp(x[1][k][2]) => x[2][k] = 0}}

\* main after ping_servers returned: the state PingReturn leaves
Init ==
    /\ phase = "scan"
    /\ servers = <<>>
    /\ rtts \in PingResults(NumEndpoints)
    /\ pingTodo = {}
    /\ pcc = None
    /\ ppos = 0
    /\ pstate = "next"
    /\ i = 0
    /\ min_rtt = MAX_RTT
    /\ issued = <<>>
    /\ timedOutAt = -1
    /\ replies = {}
    /\ cache = <<>>
    /\ lookups = [a \in IPs |-> 0]
    /\ okLookups = [a \in IPs |-> 0]
    /\ cacheHits = [a \in IPs |-> 0]
    /\ keyOrder \in Orders(DOMAIN rtts)
    /\ scanTodo = keyOrder
    /\ scc = None
    /\ spos = 0
    /\ modifiers = <<>>
    /\ resolved = <<>>
    /\ rtts0 = rtts
    /\ intermediate = <<>>
    /\ encountered = <<>>

\* `for (cc, cities) in rtts.iter()`: the next group, in the map's order
ScanGroup ==
    /\ phase = "scan" /\ scc = None /\ scanTodo # <<>>
    /\ scc' = Head(scanTodo)
    /\ scanTodo' = Tail(scanTodo)
    /\ spos' = 1
    /\ UNCHANGED <<phase, servers, rtts, pingVars, geoVars, keyOrder, modifiers, resolved,
                   rtts0, aggVars>>

\* one iteration of `for (i, (city, ip, rtt)) in cities.iter().enumerate()`:
\* query the address and mark the Measurement when the country differs
ScanStep ==
    /\ phase = "scan" /\ scc # None
    /\ LET m == rtts[scc][spos]
       IN \E o \in QueryOutcomes(cache, m.ip) :
            /\ cache' = IF o.kind = "ok" THEN CacheInsert(cache, m.ip, o.country) ELSE cache
            /\ lookups' = IF o.kind = "hit" THEN lookups
                          ELSE [lookups EXCEPT ![m.ip] = @ + 1]
            /\ okLookups' = IF o.kind = "ok" THEN [okLookups EXCEPT ![m.ip] = @ + 1]
                            ELSE okLookups
            /\ cacheHits' = IF o.kind = "hit" THEN [cacheHits EXCEPT ![m.ip] = @ + 1]
                            ELSE cacheHits
            /\ modifiers' = IF o.kind # "err" /\ o.country # scc
                            THEN Append(modifiers, [cc_estimated |-> scc, i |-> spos - 1,
                                                    cc_real |-> o.country, m |-> m])
                            ELSE modifiers
            /\ resolved' = [k \in DOMAIN resolved \cup {m.city} |->
                              IF k = m.city THEN o.country ELSE resolved[k]]
    /\ IF spos < Len(rtts[scc])
       THEN spos' = spos + 1 /\ scc' = scc
       ELSE spos' = 0 /\ scc' = None
    /\ UNCHANGED <<phase, servers, rtts, pingVars, keyOrder, scanTodo, rtts0, aggVars>>

Reverse(s) == [k \in 1..Len(s) |-> s[Len(s) + 1 - k]]

\* modifiers.iter(), without the rev()
RemovalOrderForward(mods) == mods

\* modifiers.iter().rev()
RemovalOrder(mods) == Reverse(mods)

\* Vec::remove(idx), idx counted from 0
RemoveAt(s, idx) == [k \in 1..(Len(s) - 1) |-> IF k <= idx THEN s[k] ELSE s[k + 1]]

\* the removals, one after the other; ok = FALSE when a remove(i) is out of bounds
RECURSIVE RemoveEach(_, _)
RemoveEach(st, order) ==
    IF order = <<>> \/ ~st.ok THEN st
    ELSE LET m == Head(order)
         IN IF m.i >= Len(st.rtts[m.cc_estimated])
            THEN [ok |-> FALSE, rtts |-> st.rtts]
            ELSE RemoveEach([ok |-> TRUE,
                             rtts |-> [st.rtts EXCEPT ![m.cc_estimated] = RemoveAt(@, m.i)]],
                            Tail(order))

\* the scan is over; the first loop over modifiers removes the marked Measurements
Remove ==
    /\ phase = "scan" /\ scc = None /\ scanTodo = <<>>
    /\ \E st \in {RemoveEach([ok |-> TRUE, rtts |-> rtts], RemovalOrder(modifiers))} :
          /\ rtts' = st.rtts
          /\ phase' = IF st.ok THEN "insert" ELSE "panic_remove"
    /\ UNCHANGED <<servers, pingVars, geoVars, scanVars, aggVars>>

\* if let Some(entry) = rtts.get_mut(&cc_real) { entry.push(..) }
InsertOne(r, m) ==
    IF m.cc_real \in DOMAIN r THEN [r EXCEPT ![m.cc_real] = Append(@, m.m)] ELSE r

RECURSIVE InsertEach(_, _)
InsertEach(r, mods) ==
    IF mods = <<>> THEN r ELSE InsertEach(InsertOne(r, Head(mods)), Tail(mods))

\* the second loop over modifiers, then fix_countries returns and main calls
\* generate_csv
Insert ==
    /\ phase = "insert"
    /\ rtts' = InsertEach(rtts, modifiers)
    /\ modifiers' = <<>>
    /\ phase' = "aggregate"
    /\ UNCHANGED <<servers, pingVars, geoVars, keyOrder, scanTodo, scc, spos, resolved, rtts0,
                   intermediate, encountered>>

\* -------------------------------------------------------- generate_csv
\* where a stable sort puts x among the already sorted elements: behind every
\* element whose key is not greater
InsertStable(sorted, x, key) ==
    LET p == Cardinality({k \in 1..Len(sorted) : key[sorted[k]] <= key[x]})
    IN SubSeq(sorted, 1, p) \o <<x>> \o SubSeq(sorted, p + 1, Len(sorted))

\* slice::sort_by with a comparison of key[..]: a stable sort
RECURSIVE StableSort(_, _, _)
StableSort(s, key, n) ==
    IF n = 0 THEN <<>> ELSE InsertStable(StableSort(s, key, n - 1), s[n], key)

\* entries.sort_by(|(_, _, rtt1), (_, _, rtt2)| rtt1.partial_cmp(rtt2).unwrap())
SortByRtt(entries) == StableSort(entries, [x \in Elems(entries) |-> x.rtt], Len(entries))

\* a sort by min that puts a row before the rows of the same min
RECURSIVE UnstableSort(_, _, _)
UnstableSort(s, key, n) ==
    IF n = 0 THEN <<>>
    ELSE LET sorted == UnstableSort(s, key, n - 1)
             p == Cardinality({k \in 1..Len(sorted) : key[sorted[k]] < key[s[n]]})
         IN SubSeq(sorted, 1, p) \o <<s[n]>> \o SubSeq(sorted, p + 1, Len(sorted))

SortByMinUnstable(rows) == UnstableSort(rows, [x \in Elems(rows) |-> x.min], Len(rows))

\* intermediate.sort_by(|(_, min1, ..), (_, min2, ..)| min1.partial_cmp(min2).unwrap())
SortByMin(rows) == StableSort(rows, [x \in Elems(rows) |-> x.min], Len(rows))

\* the loop over entries: min from MAX_RTT down, max from 0 up, the sum
RECURSIVE FoldStats(_, _)
FoldStats(entries, n) ==
    IF n = 0 THEN [min |-> MAX_RTT, max |-> 0, sum |-> 0]
    ELSE LET a == FoldStats(entries, n - 1)
             rtt == entries[n].rtt
         IN [min |-> IF rtt < a.min THEN rtt ELSE a.min,
             max |-> IF rtt > a.max THEN rtt ELSE a.max,
             sum |-> a.sum + rtt]

\* the median block, on the sorted entries: entries[len / 2 - 1] counts from 0
MedianOf(sorted) ==
    LET len == Len(sorted)
    IN IF len % 2 = 0
       THEN (sorted[len \div 2].rtt + sorted[len \div 2].rtt) \div 2
       ELSE sorted[len \div 2 + 1].rtt

\* the row pushed to intermediate; average = sum / len is kept as the fraction
RowOf(c, entries) ==
    LET a == FoldStats(entries, Len(entries))
    IN [cc |-> c, min |-> a.min, median |-> MedianOf(SortByRtt(entries)),
        average |-> [sum |-> a.sum, len |-> Len(entries)], max |-> a.max]

\* the loop over the groups in the given order: each group is sorted and gives
\* a row; ok = FALSE when a group has no entries and entries[len / 2 - 1] panics
RECURSIVE AggregateEach(_, _)
AggregateEach(st, order) ==
    IF order = <<>> \/ ~st.ok THEN st
    ELSE LET c == Head(order)
         IN IF Len(st.rtts[c]) = 0
            THEN [ok |-> FALSE, rtts |-> st.rtts, intermediate |-> st.intermediate]
            ELSE AggregateEach([ok |-> TRUE,
                                rtts |-> [st.rtts EXCEPT ![c] = SortByRtt(@)],
                                intermediate |-> Append(st.intermediate, RowOf(c, st.rtts[c]))],
                               Tail(order))

\* generate_csv: the rows of the groups, met in the map's order (fix_countries
\* adds and removes no key), then sorted by min and written out
GenerateCsv ==
    /\ phase = "aggregate"
    /\ \E st \in {AggregateEach([ok |-> TRUE, rtts |-> rtts, intermediate |-> <<>>], keyOrder)} :
           /\ rtts' = st.rtts
           /\ phase' = IF st.ok THEN "done" ELSE "panic_index"
           /\ intermediate' = IF st.ok THEN SortByMin(st.intermediate) ELSE <<>>
           /\ encountered' = IF st.ok THEN keyOrder ELSE <<>>
    /\ UNCHANGED <<servers, pingVars, geoVars, scanVars>>

Next == ScanGroup \/ ScanStep \/ Remove \/ Insert \/ GenerateCsv

\* the pipeline from the return of ping_servers on
Spec == Init /\ [][Next]_vars

\* ===================================================================
\* Properties
\* ===================================================================
\* the pass of fix_countries is over
Reconciled == phase \in {"aggregate", "done", "panic_index"}

\* the outcome of the query for Measurement m: a country, or None on failure
ResolvedAs(m) == IF m.city \in DOMAIN resolved THEN resolved[m.city] ELSE None

\* m, found in group c by ping_servers, resolved to another country
Misplaced(c, m) == ResolvedAs(m) \notin {None, c}

\* m is out of its original group c and in the group of its resolved country
Relocated(c, m) ==
    /\ m \notin Elems(rtts[c])
    /\ ResolvedAs(m) \in DOMAIN rtts
    /\ m \in Elems(rtts[ResolvedAs(m)])

\* the Measurements modifiers marks
Marked == {modifiers[k].m : k \in 1..Len(modifiers)}

\* the elements of s that satisfy keep, in their order
RECURSIVE Kept(_, _, _)
Kept(s, keep, n) ==
    IF n = 0 THEN <<>>
    ELSE IF s[n] \in keep THEN Append(Kept(s, keep, n - 1), s[n])
    ELSE Kept(s, keep, n - 1)

\* the position of country c in the order of encounter
PosOf(c) == CHOOSE k \in 1..Len(encountered) : encountered[k] = c

\* the probing of the current endpoint is over
ProbingOver == phase = "ping" /\ (pstate = "probed" \/ (pstate = "next" /\ issued # <<>>))

\* C1: reconciliation conserves the Measurements: the total over all groups
\* after the pass equals the total before it
C1_Conserved == Reconciled => Total(rtts) = Total(rtts0)

\* C2: after reconciliation every Measurement that resolved to a country other
\* than its group's key has left that group and is in the group of its resolved
\* country, which is created when it did not exist
C2_Relocated ==
    Reconciled =>
        \A c \in DOMAIN rtts0 : \A m \in Elems(rtts0[c]) :
            Misplaced(c, m) => Relocated(c, m)

\* C3: a group with no Measurement is left out of the report and generate_csv
\* completes: no panic, and one row per non-empty group
C3_EmptyGroupOmitted ==
    /\ phase # "panic_index"
    /\ phase = "done" =>
        /\ {intermediate[k].cc : k \in 1..Len(intermediate)} = {c \in DOMAIN rtts : rtts[c] # <<>>}
        /\ Len(intermediate) = Cardinality({c \in DOMAIN rtts : rtts[c] # <<>>})

\* C4 (as claimed): the external lookup is performed at most once per address
C4_AtMostOneLookup == \A a \in IPs : lookups[a] <= 1

\* C4 (amended): the external lookup succeeds at most once per address, and an
\* address whose lookup has succeeded is never looked up externally again
C4_AtMostOneSuccess ==
    [][\A a \in IPs : /\ okLookups'[a] <= 1
                      /\ a \in DOMAIN cache => lookups'[a] = lookups[a]]_vars

C4_Witness ==
    \E a \in IPs : okLookups[a] = 1 /\ lookups[a] = 2 /\ cacheHits[a] = 1

\* C5: the probes of one address carry the sequence numbers 0, 1, 2, ..., at
\* most PING_COUNT of them; nothing is sent after a probe timed out, so the
\* number sent is the position of the timed-out probe, or PING_COUNT
C5_StopAtTimeout ==
    /\ issued = [k \in 1..Len(issued) |-> k - 1]
    /\ Len(issued) <= PING_COUNT
    /\ timedOutAt # -1 => (issued # <<>> /\ issued[Len(issued)] = timedOutAt)
    /\ ProbingOver =>
        Len(issued) = IF timedOutAt # -1 THEN timedOutAt + 1 ELSE PING_COUNT

C5_Witness ==
    /\ pstate = "probed" /\ timedOutAt = 3 /\ Len(issued) = 4 /\ replies = {10, 20}

\* C6: an endpoint yields a Measurement iff a probe replied with an RTT below
\* MAX_RTT; the Measurement then sits in the endpoint's claimed group with the
\* least RTT of all replies; failures other than a timeout do not stop the loop
C6_MinOfReplies ==
    (phase = "ping" /\ pcc # None /\ pstate = "next" /\ ppos >= 1) =>
        LET ep == servers[pcc][ppos]
            of(c) == {m \in Elems(rtts[c]) : m.city = ep.city}
        IN /\ \A c \in DOMAIN rtts \ {pcc} : of(c) = {}
           /\ IF \E r \in replies : r < MAX_RTT
              THEN /\ pcc \in DOMAIN rtts
                   /\ of(pcc) = {[city |-> ep.city, ip |-> ep.ip, rtt |-> Min(replies)]}
                   /\ Cardinality({k \in 1..Len(rtts[pcc]) : rtts[pcc][k].city = ep.city}) = 1
              ELSE pcc \in DOMAIN rtts => of(pcc) = {}
           /\ (ParsesAsIp(ep.ip) /\ timedOutAt = -1) => Len(issued) = PING_COUNT

C6_Witness ==
    /\ phase = "ping" /\ pcc # None /\ pstate = "next" /\ ppos >= 1
    /\ replies = {10, 20, 500} /\ timedOutAt = -1
    /\ \E m \in Elems(rtts[pcc]) : m.city = servers[pcc][ppos].city /\ m.rtt = 10

\* C7: the reported median is the conventional one: the mean of the two central
\* values of an even-sized group, the middle value of an odd-sized one
C7_ConventionalMedian ==
    \A k \in 1..Len(intermediate) :
        LET sorted == rtts[intermediate[k].cc]
            len == Len(sorted)
        IN IF len % 2 = 0
           THEN 2 * intermediate[k].median = sorted[len \div 2].rtt + sorted[len \div 2 + 1].rtt
           ELSE intermediate[k].median = sorted[len \div 2 + 1].rtt

\* C8: the rows are in ascending order of each country's least RTT, and rows
\* with the same least RTT are in the order generate_csv met their groups
C8_SortedStable ==
    phase = "done" =>
        /\ Len(intermediate) = Len(encountered)
        /\ {intermediate[k].cc : k \in 1..Len(intermediate)} = Elems(encountered)
        /\ \A k \in 1..Len(intermediate) :
            intermediate[k].min = Min({m.rtt : m \in Elems(rtts[intermediate[k].cc])})
        /\ \A j, k \in 1..Len(intermediate) :
            j < k => /\ intermediate[j].min <= intermediate[k].min
                     /\ intermediate[j].min = intermediate[k].min
                            => PosOf(intermediate[j].cc) < PosOf(intermediate[k].cc)

C8_Witness ==
    /\ phase = "done" /\ Len(intermediate) = 3
    /\ intermediate[1].min = intermediate[2].min
    /\ intermediate[2].min < intermediate[3].min
    /\ encountered[1] = intermediate[3].cc

\* C9: when a lookup fails, its Measurement stays in its group and the scan goes
\* on: every Measurement is looked up and the misplaced ones are relocated
C9_FailureSkipped ==
    (Reconciled /\ \E c \in DOMAIN rtts0 : \E m \in Elems(rtts0[c]) : ResolvedAs(m) = None) =>
        \A c \in DOMAIN rtts0 : \A m \in Elems(rtts0[c]) :
            /\ m.city \in DOMAIN resolved
            /\ ResolvedAs(m) = None => m \in Elems(rtts[c])
            /\ Misplaced(c, m) => Relocated(c, m)

\* C10: the removals take out exactly the marked Measurements: afterwards each
\* group holds its unmarked Measurements in their order; no removal panics; and
\* every lookup is made before the first removal
C10_RemovesMarked ==
    /\ phase # "panic_remove"
    /\ phase = "scan" => rtts = rtts0
    /\ phase = "insert" =>
        /\ DOMAIN rtts = DOMAIN rtts0
        /\ \A c \in DOMAIN rtts0 :
            /\ rtts[c] = Kept(rtts0[c], Elems(rtts0[c]) \ Marked, Len(rtts0[c]))
            /\ \A m \in Elems(rtts0[c]) :
                m.city \in DOMAIN resolved /\ (m \in Marked <=> Misplaced(c, m))

C10_Witness ==
    /\ phase = "insert" /\ Len(modifiers) = 2
    /\ \E c \in DOMAIN rtts0 :
        /\ Len(rtts0[c]) = 3
        /\ rtts[c] = <<rtts0[c][3]>>

====
